---- MODULE Spec2Model ----
(***************************************************************************)
(* A model of github.com/go-mmap/mmap: one memory-mapped file handle       *)
(* (a File), the operations of its I/O surface (mmap.go), the open and      *)
(* close paths of the unix backend (mmap_unix.go) and the garbage          *)
(* collector's finalizer.                                                  *)
(*                                                                         *)
(* Go's integer types are modelled with scaled-down widths: int64 is a     *)
(* two's-complement integer of Int64Bits bits, the host's native int has   *)
(* either the same width (a 64-bit host) or one bit less (a 32-bit host).  *)
(* Conversions and additions wrap exactly as Go's do.                      *)
(***************************************************************************)
EXTENDS Integers, Sequences, FiniteSets, TLC

\* ---- bounds of the model ------------------------------------------------
\* width, in bits, of the model's int64
Int64Bits == 4
\* largest file that is mapped
MaxLen == 2
\* longest caller buffer handed to Read/ReadAt/Write/WriteAt
MaxBuf == 2

\* ---- program constants --------------------------------------------------
Read == 1
Write == 2
SeekStart == 0
SeekCurrent == 1
SeekEnd == 2
O_RDONLY == 0
O_WRONLY == 1
O_RDWR == 2

\* the values a byte takes in the model
ByteVals == {0, 1}
\* the Flag values handed to OpenFile: the closed set and every other value
\* of three bits
Flags == 0..7
\* the whence values handed to Seek: the three known ones and an unknown one
Whences == {SeekStart, SeekCurrent, SeekEnd, 3}
\* no Seek came right before
NoSeek == 0 - 1

VARIABLES
    hostBits,    \* width of the host's native int
    f,           \* the File pointer the caller holds: "nil" or "ptr"
    data,        \* f.data: the mapped extent, a MAP_SHARED view of the file's
                 \* bytes; <<>> is the nil slice
    c,           \* f.c: the cursor
    flag,        \* f.flag
    fi,          \* f.fi: <<size>>, the size in the FileInfo taken at open;
                 \* <<>> if there is no handle
    fd,          \* the backing descriptor: "none", "open" or "closed"
    region,      \* the OS mapping: "none", "mapped" or "unmapped"
    unmapCalls,  \* number of Munmap calls issued for the region
    finalizer,   \* the finalizer set by runtime.SetFinalizer is in force
    reachable,   \* the caller still holds the handle
    opened,      \* openFile has been called
    closeDone,   \* some call of Close has returned
    last,        \* the last call: its operation and what it returned
    mmapLen,     \* <<n>> if openFile has called Mmap, n being the length it
                 \* asked for in the host's native int; <<>> if it has not
    closing,     \* <<d>> while a Close is between clearing f.data and calling
                 \* Munmap, d being its local copy of the extent reference;
                 \* <<>> otherwise
    conc,        \* two threads inside ReadAt or WriteAt at once: the extent
                 \* and cursor when they started, and where each stands
    loop         \* the caller's read loop: where it stands, the cursor it
                 \* started from and the bytes it has collected

vars == <<hostBits, f, data, c, flag, fi, fd, region, unmapCalls, finalizer,
          reachable, opened, closeDone, last, loop, conc, mmapLen, closing>>

\* ---- Go's integers ------------------------------------------------------
Pow2(n) == 2 ^ n

\* the value of x in a two's-complement integer of the given width
Wrap(x, bits) == ((x + Pow2(bits - 1)) % Pow2(bits)) - Pow2(bits - 1)

MinInt(bits) == 0 - Pow2(bits - 1)
MaxInt(bits) == Pow2(bits - 1) - 1

Int64Range == MinInt(Int64Bits)..MaxInt(Int64Bits)

\* the offsets handed to Seek: the two ends of int64 and every offset that
\* reaches a byte of a mapped file, the end of it, or one place further
SeekOffsets == {MinInt(Int64Bits), MaxInt(Int64Bits)} \cup ((0 - (MaxLen + 1))..(MaxLen + 1))

\* the offsets handed to ReadAt and WriteAt
AtOffsets == {MinInt(Int64Bits), MaxInt(Int64Bits)} \cup ((0 - 1)..(MaxLen + 1))

\* the widths of native int on the hosts the package is built for
HostWidths == {Int64Bits, Int64Bits - 1}

\* int(x): conversion of an int64 to the host's native int
ToInt(x) == Wrap(x, hostBits)

\* int64(x): conversion of a native int to int64 (never loses a value)
ToInt64(x) == Wrap(x, Int64Bits)

Min(a, b) == IF a < b THEN a ELSE b

\* ---- Go's slices --------------------------------------------------------
\* the number of bytes copy(dst, src) moves
CopyLen(dstLen, srcLen) == Min(dstLen, srcLen)

\* s after copy(s[i:], p): the first bytes of p laid over s from index i
CopyInto(s, i, p) ==
    [k \in 1..Len(s) |->
        IF k > i /\ k <= i + CopyLen(Len(s) - i, Len(p)) THEN p[k - i] ELSE s[k]]

\* every byte sequence of length 0..n
BytesUpTo(n) == UNION {[1..k -> ByteVals] : k \in 0..n}

\* the caller's buffers: of every length 0..MaxBuf, bytes alternating from
\* either value
Bufs == {[k \in 1..len |-> (k + b) % 2] : len \in 0..MaxBuf, b \in ByteVals}

\* ---- the handle's mode ---------------------------------------------------
\* fl & Read != 0
rflag(fl) == (fl % 2) = 1

\* fl & Write != 0
wflag(fl) == ((fl \div 2) % 2) = 1

\* Flag.flag: the os.OpenFile disposition of a Flag
OsFlag(fl) ==
    CASE fl = Read -> O_RDONLY
      [] fl = Write -> O_WRONLY
      [] fl = Read + Write -> O_RDWR
      [] OTHER -> 0

\* ---- the record of a call ------------------------------------------------
\* op: the operation; n: the count it returned (for Open, the size Stat
\* reported; for Seek, the position returned); err: the error it returned;
\* after: for Seek, its whence; for ReadByte and WriteByte, the whence of the
\* successful Seek that came right before, if one did; for Open, the Flag it
\* was called with
Call(op, n, err, after) == [op |-> op, n |-> n, err |-> err, after |-> after]

NoCall == Call("none", 0, "nil", NoSeek)

\* the whence of the last call if it was a successful Seek
SeekBefore ==
    IF last.op = "Seek" /\ last.err = "nil" THEN last.after ELSE NoSeek

\* a panic ends the program
Running == last.err # "panic"

\* no threads have been started
NoConc == [data0 |-> <<>>, c0 |-> 0, thr |-> <<>>]

\* no read loop has been entered
NoLoop == [pc |-> "idle", from |-> 0, got |-> <<>>]

\* the caller can issue a call: the program runs, the handle is held and the
\* caller is not inside its read loop
Callable == Running /\ opened /\ reachable /\ loop.pc = "idle"

Init ==
    /\ hostBits \in HostWidths
    /\ f = "nil"
    /\ data = <<>>
    /\ c = 0
    /\ flag = 0
    /\ fi = <<>>
    /\ fd = "none"
    /\ region = "none"
    /\ unmapCalls = 0
    /\ finalizer = FALSE
    /\ reachable = TRUE
    /\ opened = FALSE
    /\ closeDone = FALSE
    /\ last = NoCall
    /\ loop = NoLoop
    /\ conc = NoConc
    /\ mmapLen = <<>>
    /\ closing = <<>>

\* ---- openFile (unix backend) ---------------------------------------------
\* the file sizes Stat reports: any int64, but no mappable file above MaxLen
Sizes == {s \in Int64Range : s <= MaxLen \/ s > MaxInt(hostBits)}

\* openFile that calls Mmap before it looks at the size
OpenErrMapsEmpty(size, openOk, statOk, mmapOk) ==
    IF ~openOk THEN "open"
    ELSE IF ~statOk THEN "stat"
    ELSE IF ~mmapOk THEN "mmap"
    ELSE IF size = 0 THEN "nil"
    ELSE IF size < 0 THEN "negative size"
    ELSE IF size # ToInt64(ToInt(size)) THEN "too large"
    ELSE "nil"

\* openFile without the test size != int64(int(size))
OpenErrAnySize(size, openOk, statOk, mmapOk) ==
    IF ~openOk THEN "open"
    ELSE IF ~statOk THEN "stat"
    ELSE IF size = 0 THEN "nil"
    ELSE IF size < 0 THEN "negative size"
    ELSE IF ~mmapOk THEN "mmap"
    ELSE "nil"

\* the outcome of openFile: the error it returns, "nil" on success
OpenErr(size, openOk, statOk, mmapOk) ==
    IF ~openOk THEN "open"
    ELSE IF ~statOk THEN "stat"
    ELSE IF size = 0 THEN "nil"
    ELSE IF size < 0 THEN "negative size"
    ELSE IF size # ToInt64(ToInt(size)) THEN "too large"
    ELSE IF ~mmapOk THEN "mmap"
    ELSE "nil"

\* the protection openFile asks Mmap for: PROT_READ, and PROT_WRITE with it
\* when the Write bit is set
ProtWrite(fl) == wflag(fl)

\* what mmap(2) requires of the descriptor of a MAP_SHARED mapping: it is
\* open for reading, and open read-write if PROT_WRITE is asked for;
\* otherwise Mmap returns EACCES
MmapPermitted(osflag, protWrite) ==
    /\ osflag \in {O_RDONLY, O_RDWR}
    /\ protWrite => osflag = O_RDWR

\* openFile without the call of runtime.SetFinalizer
openFileNoFinalizer(fl, size, content, openOk, statOk, mmapOk) ==
    LET err == OpenErr(size, openOk, statOk,
                       mmapOk /\ MmapPermitted(OsFlag(fl), ProtWrite(fl)))
        mapped == err = "nil" /\ size # 0
    IN
    /\ opened' = TRUE
    /\ fd' = IF openOk THEN "open" ELSE "none"
    /\ f' = IF err = "nil" THEN "ptr" ELSE "nil"
    /\ flag' = IF err = "nil" THEN fl ELSE 0
    /\ fi' = IF err = "nil" THEN <<size>> ELSE <<>>
    /\ data' = IF mapped THEN content ELSE <<>>
    /\ region' = IF mapped THEN "mapped" ELSE "none"
    /\ finalizer' = FALSE
    /\ c' = 0
    /\ last' = Call("Open", size, err, fl)
    /\ mmapLen' = IF err = "mmap" \/ mapped THEN <<ToInt(size)>> ELSE <<>>
    /\ UNCHANGED <<hostBits, closing, unmapCalls, reachable, closeDone, loop, conc>>

\* openFile(filename, fl) on a file of the given content whose Stat reports
\* size; mmapOk: the OS has the resources for the mapping
openFile(fl, size, content, openOk, statOk, mmapOk) ==
    LET err == OpenErr(size, openOk, statOk,
                       mmapOk /\ MmapPermitted(OsFlag(fl), ProtWrite(fl)))
        mapped == err = "nil" /\ size # 0
    IN
    /\ opened' = TRUE
    /\ fd' = IF openOk THEN "open" ELSE "none"
    /\ f' = IF err = "nil" THEN "ptr" ELSE "nil"
    /\ flag' = IF err = "nil" THEN fl ELSE 0
    /\ fi' = IF err = "nil" THEN <<size>> ELSE <<>>
    /\ data' = IF mapped THEN content ELSE <<>>
    /\ region' = IF mapped THEN "mapped" ELSE "none"
    /\ finalizer' = mapped
    /\ c' = 0
    /\ last' = Call("Open", size, err, fl)
    /\ mmapLen' = IF err = "mmap" \/ mapped THEN <<ToInt(size)>> ELSE <<>>
    /\ UNCHANGED <<hostBits, closing, unmapCalls, reachable, closeDone, loop, conc>>

Open ==
    /\ ~opened
    /\ \E fl \in Flags, size \in Sizes, content \in BytesUpTo(MaxLen),
          openOk \in BOOLEAN, statOk \in BOOLEAN, mmapOk \in BOOLEAN :
           /\ Len(content) = (IF size > 0 /\ size <= MaxLen THEN size ELSE 0)
           /\ openFile(fl, size, content, openOk, statOk, mmapOk)

\* ---- File.Close (unix backend) and the finalizer -------------------------
\* Close without "f.data = nil": the extent reference survives the call
CloseFileKeepsData(by, munmapOk) ==
    /\ IF data = <<>>
       THEN /\ UNCHANGED <<region, unmapCalls>>
            /\ finalizer' = (finalizer /\ by = "Close")
            /\ last' = Call(by, 0, "nil", NoSeek)
       ELSE /\ finalizer' = FALSE
            /\ unmapCalls' = unmapCalls + 1
            /\ region' = IF munmapOk THEN "unmapped" ELSE region
            /\ last' = Call(by, 1, IF munmapOk THEN "nil" ELSE "munmap", NoSeek)
    /\ closeDone' = TRUE
    /\ UNCHANGED <<hostBits, closing, mmapLen, f, data, c, flag, fi, fd, reachable, opened, loop, conc>>

\* Close that releases the handle only when Munmap succeeded
CloseFileRetries(by, munmapOk) ==
    /\ IF data = <<>>
       THEN /\ UNCHANGED <<data, region, unmapCalls>>
            /\ finalizer' = (finalizer /\ by = "Close")
            /\ last' = Call(by, 0, "nil", NoSeek)
       ELSE /\ data' = IF munmapOk THEN <<>> ELSE data
            /\ finalizer' = FALSE
            /\ unmapCalls' = unmapCalls + 1
            /\ region' = IF munmapOk THEN "unmapped" ELSE region
            /\ last' = Call(by, 1, IF munmapOk THEN "nil" ELSE "munmap", NoSeek)
    /\ closeDone' = TRUE
    /\ UNCHANGED <<hostBits, closing, mmapLen, f, c, flag, fi, fd, reachable, opened, loop, conc>>

\* the body of Close on a non-nil handle; by is "Close" for the caller's call
\* and "Finalizer" for the collector's. The deferred f.Close() is a recursive
\* call that finds f.data nil and returns: the descriptor stays as it is.
CloseFile(by, munmapOk) ==
    /\ IF data = <<>>
       THEN /\ UNCHANGED <<data, region, unmapCalls>>
            /\ finalizer' = (finalizer /\ by = "Close")
            /\ last' = Call(by, 0, "nil", NoSeek)
       ELSE /\ data' = <<>>
            /\ finalizer' = FALSE
            /\ unmapCalls' = unmapCalls + 1
            /\ region' = IF munmapOk THEN "unmapped" ELSE region
            /\ last' = Call(by, 1, IF munmapOk THEN "nil" ELSE "munmap", NoSeek)
    /\ closeDone' = TRUE
    /\ UNCHANGED <<hostBits, closing, mmapLen, f, c, flag, fi, fd, reachable, opened, loop, conc>>

\* the first half of Close, without "f.data = nil"
CloseBeginKeepsData ==
    /\ Callable
    /\ f = "ptr"
    /\ closing = <<>>
    /\ data # <<>>
    /\ closing' = <<data>>
    /\ finalizer' = FALSE
    /\ last' = Call("Close", 1, "running", NoSeek)
    /\ UNCHANGED <<hostBits, f, data, c, flag, fi, fd, region, unmapCalls, reachable,
                   opened, closeDone, loop, conc, mmapLen>>

\* Close on a mapped handle, up to the call of Munmap: the extent reference
\* is copied to a local, f.data is cleared and the finalizer is removed
CloseBegin ==
    /\ Callable
    /\ f = "ptr"
    /\ closing = <<>>
    /\ data # <<>>
    /\ closing' = <<data>>
    /\ data' = <<>>
    /\ finalizer' = FALSE
    /\ last' = Call("Close", 1, "running", NoSeek)
    /\ UNCHANGED <<hostBits, f, c, flag, fi, fd, region, unmapCalls, reachable,
                   opened, closeDone, loop, conc, mmapLen>>

\* the rest of that Close: Munmap of the local copy, whose error is returned
CloseEnd ==
    /\ Running
    /\ closing # <<>>
    /\ \E munmapOk \in BOOLEAN :
          /\ region' = IF munmapOk THEN "unmapped" ELSE region
          /\ last' = Call("Close", 1, IF munmapOk THEN "nil" ELSE "munmap", NoSeek)
    /\ unmapCalls' = unmapCalls + 1
    /\ closing' = <<>>
    /\ closeDone' = TRUE
    /\ UNCHANGED <<hostBits, f, data, c, flag, fi, fd, finalizer, reachable,
                   opened, loop, conc, mmapLen>>

\* a call that dereferences a nil handle panics
NilPanic(op) ==
    /\ last' = Call(op, 0, "panic", NoSeek)
    /\ UNCHANGED <<hostBits, closing, mmapLen, f, data, c, flag, fi, fd, region, unmapCalls,
                   finalizer, reachable, opened, closeDone, loop, conc>>

Close ==
    /\ Callable
    /\ IF f = "nil"
       THEN NilPanic("Close")
       ELSE \E munmapOk \in BOOLEAN : CloseFile("Close", munmapOk)

\* the caller lets go of the handle without closing it
Drop ==
    /\ Callable
    /\ f = "ptr"
    /\ reachable' = FALSE
    /\ last' = Call("Drop", 0, "nil", NoSeek)
    /\ UNCHANGED <<hostBits, closing, mmapLen, f, data, c, flag, fi, fd, region, unmapCalls,
                   finalizer, opened, closeDone, loop, conc>>

\* the collector runs the finalizer of an unreachable handle, once
Finalize ==
    /\ Running
    /\ ~reachable
    /\ finalizer
    /\ \E munmapOk \in BOOLEAN : CloseFile("Finalizer", munmapOk)

\* ---- the I/O surface (mmap.go) -------------------------------------------
\* the result of a call: count, error, bytes handed to the caller, and the
\* cursor and extent it leaves behind
Ret(n, err, out, newc, newdata) ==
    [n |-> n, err |-> err, out |-> out, c |-> newc, data |-> newdata]

\* a call that returns an error and leaves the handle as it is, at cursor cur
Fail(err, cur) == Ret(0, err, <<>>, cur, data)

\* a call carried out on the handle: the record of it and the state it leaves
Apply(op, after, r) ==
    /\ c' = r.c
    /\ data' = r.data
    /\ last' = Call(op, r.n, r.err, after)
    /\ UNCHANGED <<hostBits, closing, mmapLen, f, flag, fi, fd, region, unmapCalls, finalizer,
                   reachable, opened, closeDone, loop, conc>>

\* f.Len(): the count field carries the length returned; there is no nil test
LenRet ==
    IF f = "nil" THEN Fail("panic", c)
    ELSE Ret(Len(data), "nil", <<>>, c, data)

FileLen ==
    /\ Callable
    /\ Apply("Len", NoSeek, LenRet)

\* the indexes handed to At
AtIndexes == (0 - 1)..MaxLen

\* f.At(i): no test of the handle, of the mode or of the index; an index
\* outside the extent panics
AtRet(i) ==
    IF f = "nil" THEN Fail("panic", c)
    ELSE IF i < 0 \/ i >= Len(data) THEN Fail("panic", c)
    ELSE Ret(1, "nil", <<data[i + 1]>>, c, data)

At ==
    /\ Callable
    /\ \E i \in AtIndexes : Apply("At", NoSeek, AtRet(i))

\* f.Stat(): the count field carries the size in f.fi
StatRet ==
    IF f = "nil" THEN Fail("ErrInvalid", c)
    ELSE Ret(fi[1], "nil", <<>>, c, data)

Stat ==
    /\ Callable
    /\ Apply("Stat", NoSeek, StatRet)

\* f.Sync() (unix backend): no nil test; Msync answers msyncOk
SyncRet(msyncOk) ==
    IF f = "nil" THEN Fail("panic", c)
    ELSE IF ~wflag(flag) THEN Fail("errBadFD", c)
    ELSE Fail(IF msyncOk THEN "nil" ELSE "msync", c)

Sync ==
    /\ Callable
    /\ \E msyncOk \in BOOLEAN : Apply("Sync", NoSeek, SyncRet(msyncOk))

\* Read that tests the cursor with > where the code has >=
ReadRetPastEnd(cur, plen) ==
    IF f = "nil" THEN Fail("ErrInvalid", cur)
    ELSE IF ~rflag(flag) THEN Fail("errBadFD", cur)
    ELSE IF cur > Len(data) THEN Fail("EOF", cur)
    ELSE IF cur < 0 THEN Fail("panic", cur)
    ELSE LET n == CopyLen(plen, Len(data) - cur)
         IN Ret(n, "nil", SubSeq(data, cur + 1, cur + n), cur + n, data)

\* Read that does not advance the cursor
ReadRetKeepsCursor(cur, plen) ==
    IF f = "nil" THEN Fail("ErrInvalid", cur)
    ELSE IF ~rflag(flag) THEN Fail("errBadFD", cur)
    ELSE IF cur >= Len(data) THEN Fail("EOF", cur)
    ELSE IF cur < 0 THEN Fail("panic", cur)
    ELSE LET n == CopyLen(plen, Len(data) - cur)
         IN Ret(n, "nil", SubSeq(data, cur + 1, cur + n), cur, data)

\* f.Read(p) with len(p) = plen and f.c = cur
ReadRet(cur, plen) ==
    IF f = "nil" THEN Fail("ErrInvalid", cur)
    ELSE IF ~rflag(flag) THEN Fail("errBadFD", cur)
    ELSE IF cur >= Len(data) THEN Fail("EOF", cur)
    ELSE IF cur < 0 THEN Fail("panic", cur)
    ELSE LET n == CopyLen(plen, Len(data) - cur)
         IN Ret(n, "nil", SubSeq(data, cur + 1, cur + n), cur + n, data)

FileRead ==
    /\ Callable
    /\ \E plen \in 0..MaxBuf : Apply("Read", NoSeek, ReadRet(c, plen))

\* ReadByte that advances the cursor before it reads
ReadByteRetAdvancesFirst(cur) ==
    IF f = "nil" THEN Fail("ErrInvalid", cur)
    ELSE IF ~rflag(flag) THEN Fail("errBadFD", cur)
    ELSE IF cur >= Len(data) THEN Fail("EOF", cur)
    ELSE IF cur < 0 \/ cur + 1 >= Len(data) THEN Fail("panic", cur)
    ELSE Ret(1, "nil", <<data[cur + 2]>>, cur + 1, data)

\* f.ReadByte() with f.c = cur
ReadByteRet(cur) ==
    IF f = "nil" THEN Fail("ErrInvalid", cur)
    ELSE IF ~rflag(flag) THEN Fail("errBadFD", cur)
    ELSE IF cur >= Len(data) THEN Fail("EOF", cur)
    ELSE IF cur < 0 THEN Fail("panic", cur)
    ELSE Ret(1, "nil", <<data[cur + 1]>>, cur + 1, data)

ReadByte ==
    /\ Callable
    /\ Apply("ReadByte", SeekBefore, ReadByteRet(c))

\* ReadAt that tests the offset before it tests for a closed handle
ReadAtRetOffsetFirst(plen, off) ==
    IF f = "nil" THEN Fail("ErrInvalid", c)
    ELSE IF ~rflag(flag) THEN Fail("errBadFD", c)
    ELSE IF off < 0 \/ ToInt64(Len(data)) < off THEN Fail("invalid offset", c)
    ELSE IF data = <<>> THEN Fail("closed", c)
    ELSE LET n == CopyLen(plen, Len(data) - off)
         IN Ret(n, IF n < plen THEN "EOF" ELSE "nil",
                SubSeq(data, off + 1, off + n), c, data)

\* f.ReadAt(p, off) with len(p) = plen
ReadAtRet(plen, off) ==
    IF f = "nil" THEN Fail("ErrInvalid", c)
    ELSE IF ~rflag(flag) THEN Fail("errBadFD", c)
    ELSE IF data = <<>> THEN Fail("closed", c)
    ELSE IF off < 0 \/ ToInt64(Len(data)) < off THEN Fail("invalid offset", c)
    ELSE LET n == CopyLen(plen, Len(data) - off)
         IN Ret(n, IF n < plen THEN "EOF" ELSE "nil",
                SubSeq(data, off + 1, off + n), c, data)

ReadAt ==
    /\ Callable
    /\ \E plen \in 0..MaxBuf, off \in AtOffsets :
          Apply("ReadAt", NoSeek, ReadAtRet(plen, off))

\* Write that tests the cursor before it tests the mode
WriteRetCursorFirst(cur, p) ==
    IF f = "nil" THEN Fail("ErrInvalid", cur)
    ELSE IF cur >= Len(data) THEN Fail("ErrShortWrite", cur)
    ELSE IF ~wflag(flag) THEN Fail("errBadFD", cur)
    ELSE IF cur < 0 THEN Fail("panic", cur)
    ELSE LET n == CopyLen(Len(data) - cur, Len(p))
         IN Ret(n, IF Len(p) > n THEN "ErrShortWrite" ELSE "nil", <<>>,
                cur + n, CopyInto(data, cur, p))

\* f.Write(p) with f.c = cur
WriteRet(cur, p) ==
    IF f = "nil" THEN Fail("ErrInvalid", cur)
    ELSE IF ~wflag(flag) THEN Fail("errBadFD", cur)
    ELSE IF cur >= Len(data) THEN Fail("ErrShortWrite", cur)
    ELSE IF cur < 0 THEN Fail("panic", cur)
    ELSE LET n == CopyLen(Len(data) - cur, Len(p))
         IN Ret(n, IF Len(p) > n THEN "ErrShortWrite" ELSE "nil", <<>>,
                cur + n, CopyInto(data, cur, p))

FileWrite ==
    /\ Callable
    /\ \E p \in Bufs : Apply("Write", NoSeek, WriteRet(c, p))

\* f.WriteByte(b) with f.c = cur
WriteByteRet(cur, b) ==
    IF f = "nil" THEN Fail("ErrInvalid", cur)
    ELSE IF ~wflag(flag) THEN Fail("errBadFD", cur)
    ELSE IF cur >= Len(data) THEN Fail("ErrShortWrite", cur)
    ELSE IF cur < 0 THEN Fail("panic", cur)
    ELSE Ret(1, "nil", <<>>, cur + 1, [data EXCEPT ![cur + 1] = b])

WriteByte ==
    /\ Callable
    /\ \E b \in ByteVals : Apply("WriteByte", SeekBefore, WriteByteRet(c, b))

\* WriteAt that writes at the cursor instead of the offset
WriteAtRetAtCursor(p, off) ==
    IF f = "nil" THEN Fail("ErrInvalid", c)
    ELSE IF ~wflag(flag) THEN Fail("errBadFD", c)
    ELSE IF data = <<>> THEN Fail("closed", c)
    ELSE IF off < 0 \/ ToInt64(Len(data)) < off THEN Fail("invalid offset", c)
    ELSE IF c < 0 \/ c > Len(data) THEN Fail("panic", c)
    ELSE LET n == CopyLen(Len(data) - c, Len(p))
         IN Ret(n, IF n < Len(p) THEN "ErrShortWrite" ELSE "nil", <<>>,
                c, CopyInto(data, c, p))

\* f.WriteAt(p, off)
WriteAtRet(p, off) ==
    IF f = "nil" THEN Fail("ErrInvalid", c)
    ELSE IF ~wflag(flag) THEN Fail("errBadFD", c)
    ELSE IF data = <<>> THEN Fail("closed", c)
    ELSE IF off < 0 \/ ToInt64(Len(data)) < off THEN Fail("invalid offset", c)
    ELSE LET n == CopyLen(Len(data) - off, Len(p))
         IN Ret(n, IF n < Len(p) THEN "ErrShortWrite" ELSE "nil", <<>>,
                c, CopyInto(data, off, p))

WriteAt ==
    /\ Callable
    /\ \E p \in Bufs, off \in AtOffsets : Apply("WriteAt", NoSeek, WriteAtRet(p, off))

\* Seek that counts SeekEnd offsets forward, as os.File does
SeekPosEndForward(offset, whence) ==
    CASE whence = SeekStart -> ToInt(offset)
      [] whence = SeekCurrent -> ToInt(c + ToInt(offset))
      [] whence = SeekEnd -> ToInt(Len(data) + ToInt(offset))
      [] OTHER -> c

\* Seek that treats SeekCurrent as SeekStart
SeekPosCurrentAsStart(offset, whence) ==
    CASE whence = SeekStart -> ToInt(offset)
      [] whence = SeekCurrent -> ToInt(offset)
      [] whence = SeekEnd -> ToInt(Len(data) - ToInt(offset))
      [] OTHER -> c

\* the cursor f.Seek(offset, whence) computes, in the host's native int
SeekPos(offset, whence) ==
    CASE whence = SeekStart -> ToInt(offset)
      [] whence = SeekCurrent -> ToInt(c + ToInt(offset))
      [] whence = SeekEnd -> ToInt(Len(data) - ToInt(offset))
      [] OTHER -> c

\* f.Seek(offset, whence): the cursor is assigned before it is tested; the
\* count field carries the position returned
SeekRet(offset, whence) ==
    IF f = "nil" THEN Fail("ErrInvalid", c)
    ELSE IF whence \notin {SeekStart, SeekCurrent, SeekEnd} THEN Fail("invalid whence", c)
    ELSE LET pos == SeekPos(offset, whence)
         IN IF pos < 0
            THEN Ret(0, "negative position", <<>>, pos, data)
            ELSE Ret(ToInt64(pos), "nil", <<>>, pos, data)

Seek ==
    /\ Callable
    /\ \E offset \in SeekOffsets, whence \in Whences :
          Apply("Seek", whence, SeekRet(offset, whence))

\* ---- the caller's read loop ----------------------------------------------
\* the caller enters a loop that calls Read with a non-empty buffer until
\* Read returns an error
LoopStart ==
    /\ Callable
    /\ f = "ptr"
    /\ loop' = [pc |-> "reading", from |-> c, got |-> <<>>]
    /\ UNCHANGED <<hostBits, closing, mmapLen, f, data, c, flag, fi, fd, region, unmapCalls,
                   finalizer, reachable, opened, closeDone, last, conc>>

\* one turn of the loop: a Read; its bytes are collected, and the loop ends
\* when Read returns an error (a panic ends the program instead)
LoopRead ==
    /\ Running
    /\ loop.pc = "reading"
    /\ \E plen \in 1..MaxBuf :
          LET r == ReadRet(c, plen)
          IN /\ c' = r.c
             /\ data' = r.data
             /\ last' = Call("Read", r.n, r.err, NoSeek)
             /\ loop' = [loop EXCEPT !.got = @ \o r.out,
                                     !.pc = IF r.err \in {"nil", "panic"} THEN @
                                            ELSE "done"]
    /\ UNCHANGED <<hostBits, closing, mmapLen, f, flag, fi, fd, region, unmapCalls, finalizer,
                   reachable, opened, closeDone, conc>>

\* ---- concurrent ReadAt and WriteAt ---------------------------------------
\* the calls two threads issue at once: a ReadAt into a zeroed buffer or a
\* WriteAt of a payload, at an offset of the extent
ConcCalls ==
    {[w |-> w, p |-> p, off |-> off] :
        w \in BOOLEAN, p \in Bufs, off \in 0..MaxLen}

\* the byte ranges [off, off + len(p)) of two calls have no byte in common
Disjoint(a, b) ==
    \/ Len(a.p) = 0
    \/ Len(b.p) = 0
    \/ a.off + Len(a.p) <= b.off
    \/ b.off + Len(b.p) <= a.off

\* a thread about to make a call
Thread(call) ==
    [pc |-> "call", w |-> call.w, p |-> call.p, off |-> call.off,
     n |-> 0, err |-> "nil", i |-> 0,
     out |-> IF call.w THEN <<>> ELSE [k \in 1..Len(call.p) |-> 0]]

\* two threads are handed one call each, on byte ranges with no byte in
\* common, on an open handle (the thread with the lower offset is numbered 1)
ConcStart ==
    /\ Callable
    /\ f = "ptr"
    /\ data # <<>> \/ region = "none"
    /\ conc.thr = <<>>
    /\ \E a \in ConcCalls, b \in ConcCalls :
          /\ a.off <= b.off
          /\ Disjoint(a, b)
          /\ conc' = [data0 |-> data, c0 |-> c, thr |-> <<Thread(a), Thread(b)>>]
    /\ UNCHANGED <<hostBits, closing, mmapLen, f, data, c, flag, fi, fd, region, unmapCalls,
                   finalizer, reachable, opened, closeDone, last, loop>>

\* thread t enters ReadAt or WriteAt: the tests of the handle, the mode, the
\* extent and the offset, and the count copy will move
ThreadCall(t) ==
    /\ conc.thr # <<>>
    /\ conc.thr[t].pc = "call"
    /\ LET th == conc.thr[t]
           r == IF th.w THEN WriteAtRet(th.p, th.off) ELSE ReadAtRet(Len(th.p), th.off)
       IN conc' = [conc EXCEPT !.thr[t].n = r.n,
                               !.thr[t].err = r.err,
                               !.thr[t].pc = IF r.n > 0 THEN "copy" ELSE "done"]
    /\ UNCHANGED <<hostBits, closing, mmapLen, f, data, c, flag, fi, fd, region, unmapCalls,
                   finalizer, reachable, opened, closeDone, last, loop>>

\* copy with stores a word wide: the byte is stored together with the bytes
\* around it as they were when the threads started
StoreWide(d, k, b) == [conc.data0 EXCEPT ![k] = b]

\* the extent d after copy has stored byte b at index k
Store(d, k, b) == [d EXCEPT ![k] = b]

\* thread t's copy moves one more byte: from the extent to the buffer in
\* ReadAt, from the payload to the extent in WriteAt
ThreadCopy(t) ==
    /\ conc.thr # <<>>
    /\ conc.thr[t].pc = "copy"
    /\ LET th == conc.thr[t]
           k == th.off + th.i + 1
           pc == IF th.i + 1 = th.n THEN "done" ELSE "copy"
       IN IF th.w
          THEN /\ data' = Store(data, k, th.p[th.i + 1])
               /\ conc' = [conc EXCEPT !.thr[t].i = @ + 1, !.thr[t].pc = pc]
          ELSE /\ data' = data
               /\ conc' = [conc EXCEPT !.thr[t].i = @ + 1, !.thr[t].pc = pc,
                                       !.thr[t].out[th.i + 1] = data[k]]
    /\ UNCHANGED <<hostBits, closing, mmapLen, f, c, flag, fi, fd, region, unmapCalls,
                   finalizer, reachable, opened, closeDone, last, loop>>

Next ==
    \/ Open
    \/ Close
    \/ Drop
    \/ Finalize
    \/ FileLen
    \/ At
    \/ Stat
    \/ Sync
    \/ FileRead
    \/ ReadByte
    \/ ReadAt
    \/ FileWrite
    \/ WriteByte
    \/ WriteAt
    \/ Seek

Spec == Init /\ [][Next]_vars

\* a program that opens a file, moves the cursor and writes, and then runs
\* the read loop; the loop's caller keeps calling Read until it has an error
NextLoop ==
    \/ Open
    \/ Seek
    \/ WriteAt
    \/ Close
    \/ LoopStart
    \/ LoopRead

SpecLoop == Init /\ [][NextLoop]_vars /\ WF_vars(LoopRead)

\* a program that opens a file and has two threads call ReadAt and WriteAt
\* at once; the steps of the two threads interleave in every way
NextConc ==
    \/ Open
    \/ ConcStart
    \/ \E t \in 1..2 : ThreadCall(t)
    \/ \E t \in 1..2 : ThreadCopy(t)

SpecConc == Init /\ [][NextConc]_vars

\* a program that opens a file, reads from it, and closes the handle or lets
\* go of it; the collector runs the finalizer of a handle it finds unreachable
NextGC ==
    \/ Open
    \/ ReadByte
    \/ Close
    \/ Drop
    \/ Finalize

SpecGC == Init /\ [][NextGC]_vars /\ WF_vars(Finalize)

\* a program whose Close is taken in its two halves, with the calls that read
\* and write bytes issued before, between and after them
NextClose ==
    \/ Open
    \/ CloseBegin
    \/ CloseEnd
    \/ At
    \/ ReadByte
    \/ ReadAt
    \/ WriteByte
    \/ WriteAt

SpecClose == Init /\ [][NextClose]_vars

TypeOK ==
    /\ hostBits \in HostWidths
    /\ f \in {"nil", "ptr"}
    /\ data \in BytesUpTo(MaxLen)
    /\ c \in MinInt(hostBits)..MaxInt(hostBits)
    /\ flag \in Flags
    /\ fi \in {<<>>} \cup {<<s>> : s \in Int64Range}
    /\ (fi = <<>>) = (f = "nil")
    /\ fd \in {"none", "open", "closed"}
    /\ region \in {"none", "mapped", "unmapped"}
    /\ data # <<>> => region = "mapped"
    /\ loop.pc \in {"idle", "reading", "done"}
    /\ Len(conc.thr) \in {0, 2}
    /\ Len(mmapLen) \in {0, 1}
    /\ Len(closing) \in {0, 1}
    /\ region # "none" => mmapLen # <<>>

\* ---- the claims ----------------------------------------------------------
CursorOps == {"Read", "ReadByte", "Write", "WriteByte"}
WriteOps == {"Write", "WriteByte", "WriteAt"}

\* the handle was opened on a non-empty file and its extent was mapped
WasMapped == region # "none"

\* C1: for a handle opened with a non-empty extent, whatever the sequence of
\* Close calls and finalizer runs, Munmap is called at most once for its
\* region, and exactly once as soon as one Close has returned: that Close
\* cleared the extent reference and unregistered the finalizer.
C1_UnmapExactlyOnce ==
    /\ unmapCalls <= 1
    /\ (WasMapped /\ closeDone) =>
           (unmapCalls = 1 /\ data = <<>> /\ ~finalizer)
    /\ (WasMapped /\ ~closeDone) => (unmapCalls = 0 /\ finalizer)

\* a second Close on a mapped handle has returned, and Munmap ran once
C1_Witness ==
    /\ WasMapped
    /\ last.op = "Close"
    /\ last.n = 0
    /\ unmapCalls = 1

\* C2 as claimed: after Close every ReadAt and every WriteAt fails with
\* "mmap: closed", whatever the mode of the handle.
C2_ClosedWhateverTheMode ==
    (closeDone /\ WasMapped /\ last.op \in {"ReadAt", "WriteAt"}) =>
        last.err = "closed"

\* C2 amended: after Close, ReadAt on a handle opened with Read and WriteAt on
\* a handle opened with Write fail with "mmap: closed" for every offset and
\* buffer; on a handle without the capability they fail with errBadFD, the
\* mode being tested first.
C2_ClosedIfPermitted ==
    closeDone =>
        /\ last.op = "ReadAt" =>
               last.err = (IF rflag(flag) THEN "closed" ELSE "errBadFD")
        /\ last.op = "WriteAt" =>
               last.err = (IF wflag(flag) THEN "closed" ELSE "errBadFD")
        /\ \A off \in Int64Range :
               /\ \A plen \in 0..MaxBuf :
                      ReadAtRet(plen, off) =
                          Fail(IF rflag(flag) THEN "closed" ELSE "errBadFD", c)
               /\ \A p \in BytesUpTo(MaxBuf) :
                      WriteAtRet(p, off) =
                          Fail(IF wflag(flag) THEN "closed" ELSE "errBadFD", c)

\* a ReadAt issued after Close on a once-mapped readable handle reported closed
C2_Witness ==
    /\ closeDone
    /\ WasMapped
    /\ last.op = "ReadAt"
    /\ last.err = "closed"

\* C3: Close on an already-closed handle, or on the handle of a zero-length
\* file, returns nil and changes nothing; and a first Close whose Munmap
\* failed returns that error and still leaves the handle released.
C3_CloseIdempotent ==
    [][(last'.op = "Close" /\ f = "ptr") =>
          /\ data = <<>> =>
                 /\ last'.err = "nil"
                 /\ UNCHANGED <<hostBits, closing, mmapLen, f, data, c, flag, fd, region,
                                unmapCalls, finalizer, reachable, opened>>
          /\ data # <<>> =>
                 /\ last'.err \in {"nil", "munmap"}
                 /\ (last'.err = "munmap") = (region' = "mapped")
                 /\ data' = <<>>
                 /\ ~finalizer']_vars

\* a Close has returned nil on a handle whose first Close failed to unmap
C3_Witness ==
    /\ last.op = "Close"
    /\ last.n = 0
    /\ last.err = "nil"
    /\ unmapCalls = 1
    /\ region = "mapped"

\* C4 as claimed: after Close, no Read, ReadByte, Write or WriteByte reports
\* end-of-stream or short-write; each reports the closed or invalid condition
\* (the closed error, the invalid-handle error or the bad-descriptor error).
C4_CursorOpsReportClosed ==
    (closeDone /\ WasMapped /\ last.op \in CursorOps) =>
        last.err \in {"closed", "ErrInvalid", "errBadFD"}

\* C4 amended: after Close no cursor-based call touches the released extent
\* and none reports the closed error: without the capability it fails with
\* errBadFD; with it, and a cursor >= 0, Read and ReadByte report io.EOF and
\* Write and WriteByte report io.ErrShortWrite, with zero bytes; with the
\* negative cursor a failed Seek leaves behind, the call panics.
C4_CursorOpsAfterClose ==
    closeDone =>
        LET rerr == IF ~rflag(flag) THEN "errBadFD"
                    ELSE IF c >= 0 THEN "EOF" ELSE "panic"
            werr == IF ~wflag(flag) THEN "errBadFD"
                    ELSE IF c >= 0 THEN "ErrShortWrite" ELSE "panic"
        IN
        /\ \A plen \in 0..MaxBuf : ReadRet(c, plen) = Fail(rerr, c)
        /\ ReadByteRet(c) = Fail(rerr, c)
        /\ \A p \in BytesUpTo(MaxBuf) : WriteRet(c, p) = Fail(werr, c)
        /\ \A b \in ByteVals : WriteByteRet(c, b) = Fail(werr, c)
        /\ last.op \in {"Read", "ReadByte"} =>
               last.n = 0 /\ last.err \in {"errBadFD", "EOF", "panic"}
        /\ last.op \in {"Write", "WriteByte"} =>
               last.n = 0 /\ last.err \in {"errBadFD", "ErrShortWrite", "panic"}

\* a Read issued after Close on a once-mapped readable handle reported io.EOF
C4_Witness ==
    /\ closeDone
    /\ WasMapped
    /\ last.op = "Read"
    /\ last.err = "EOF"

\* C5 as claimed: a Seek that fails with "negative position" leaves the
\* cursor as it was before the call.
C5_FailedSeekKeepsCursor ==
    [][(last'.op = "Seek" /\ last'.err = "negative position") => c' = c]_vars

\* x and y are the same value of the host's native int
SameInt(x, y) == (x - y) % Pow2(hostBits) = 0

\* the position a Seek is asked for, in the integers: offset from the start,
\* c + offset from the cursor
SeekTarget(offset, whence) == IF whence = SeekStart THEN offset ELSE c + offset

\* C6 as claimed: a successful Seek sets the cursor to offset for SeekStart,
\* to c + offset for SeekCurrent and to length + offset for SeekEnd and
\* returns the new cursor; an unknown whence fails with "invalid whence".
\* (Stated for the offsets and positions the host's native int holds, where
\* no conversion is at play.)
C6_SeekStandard ==
    f = "ptr" =>
        \A offset \in MinInt(hostBits)..MaxInt(hostBits), whence \in Whences :
            LET r == SeekRet(offset, whence)
                target == IF whence = SeekEnd THEN Len(data) + offset
                          ELSE SeekTarget(offset, whence)
            IN IF whence \in {SeekStart, SeekCurrent, SeekEnd}
               THEN (r.err = "nil" /\ target \in MinInt(hostBits)..MaxInt(hostBits)) =>
                        (r.c = target /\ r.n = target)
               ELSE r.err = "invalid whence"

\* C6 amended: Seek computes the position in the host's native int, from
\* int(offset): offset for SeekStart, c + offset for SeekCurrent and
\* length - offset (not length + offset) for SeekEnd. It stores that position
\* in the cursor, succeeds exactly when the position is >= 0, and then returns
\* it; an unknown whence fails with "invalid whence" and leaves the cursor.
C6_SeekNativeInt ==
    f = "ptr" =>
        \A offset \in Int64Range, whence \in Whences :
            LET r == SeekRet(offset, whence)
                target == IF whence = SeekEnd THEN Len(data) - offset
                          ELSE SeekTarget(offset, whence)
            IN IF whence \in {SeekStart, SeekCurrent, SeekEnd}
               THEN /\ r.c \in MinInt(hostBits)..MaxInt(hostBits)
                    /\ SameInt(r.c, target)
                    /\ r.err = (IF r.c >= 0 THEN "nil" ELSE "negative position")
                    /\ r.err = "nil" => r.n = r.c
                    /\ r.data = data
               ELSE r = Fail("invalid whence", c)

\* a Seek from the end with an offset > 0 has succeeded on a mapped handle
C6_Witness ==
    /\ last.op = "Seek"
    /\ last.after = SeekEnd
    /\ last.err = "nil"
    /\ data # <<>>
    /\ c < Len(data)
    /\ last.n = c

\* C7: on a handle of length L, Seek(k, SeekEnd) with 0 < k <= L succeeds and
\* puts the cursor at L - k; the next ReadByte returns the byte at index
\* L - k, and on a writable handle the next WriteByte overwrites exactly the
\* byte at index L - k.
C7_SeekEndThenByte ==
    f = "ptr" =>
        \A k \in 1..Len(data) :
            LET s == SeekRet(k, SeekEnd)
                i == Len(data) - k
            IN /\ s = Ret(i, "nil", <<>>, i, data)
               /\ rflag(flag) =>
                      ReadByteRet(s.c) = Ret(1, "nil", <<data[i + 1]>>, i + 1, data)
               /\ wflag(flag) =>
                      \A b \in ByteVals :
                          WriteByteRet(s.c, b) =
                              Ret(1, "nil", <<>>, i + 1, [data EXCEPT ![i + 1] = b])

\* a WriteByte right after a successful Seek from the end has written a byte
C7_Witness ==
    /\ last.op = "WriteByte"
    /\ last.after = SeekEnd
    /\ last.err = "nil"
    /\ c >= 1
    /\ c <= Len(data)

\* C8: on an open readable handle, for every k with 0 <= k < length,
\* Seek(k, SeekStart) followed by ReadByte yields the byte ReadAt yields for a
\* one-byte buffer at offset k, whatever the cursor was before; and so does
\* Seek(d, SeekCurrent) with c + d = k.
C8_SeekThenReadByteIsReadAt ==
    (f = "ptr" /\ rflag(flag) /\ data # <<>>) =>
        \A k \in 0..(Len(data) - 1) :
            LET at == ReadAtRet(1, k)
            IN /\ at.err = "nil"
               /\ Len(at.out) = 1
               /\ LET s == SeekRet(k, SeekStart)
                  IN /\ s.err = "nil"
                     /\ ReadByteRet(s.c).err = "nil"
                     /\ ReadByteRet(s.c).out = at.out
               /\ \A d \in Int64Range :
                      c + d = k =>
                          LET s == SeekRet(d, SeekCurrent)
                          IN /\ s.err = "nil"
                             /\ ReadByteRet(s.c).err = "nil"
                             /\ ReadByteRet(s.c).out = at.out

\* a ReadByte right after a successful Seek from the cursor has read a byte
C8_Witness ==
    /\ last.op = "ReadByte"
    /\ last.after = SeekCurrent
    /\ last.err = "nil"
    /\ Len(data) > 1

\* C9: on a handle opened read-only every Write, WriteByte and WriteAt fails
\* with errBadFD and leaves every byte of the file as it was, whatever the
\* cursor and whether the handle is open or closed.
C9_ReadOnlyRejectsWrites ==
    (f = "ptr" /\ flag = Read) =>
        /\ last.op \in WriteOps => last.err = "errBadFD"
        /\ \A p \in BytesUpTo(MaxBuf) :
               /\ WriteRet(c, p) = Fail("errBadFD", c)
               /\ \A off \in Int64Range : WriteAtRet(p, off) = Fail("errBadFD", c)
        /\ \A b \in ByteVals : WriteByteRet(c, b) = Fail("errBadFD", c)

\* a Write on an open read-only handle, its cursor at the end, was refused
C9_Witness ==
    /\ flag = Read
    /\ data # <<>>
    /\ c = Len(data)
    /\ last.op = "Write"
    /\ last.err = "errBadFD"

\* C10 as claimed: for a file of any size N >= 0 opened read-only, Len() is N
\* and ReadAt(buf, 0) with len(buf) = N returns the file's bytes with no error
\* other than io.EOF.
C10_ReadAtWholeFile ==
    (last.op = "Open" /\ last.err = "nil" /\ flag = Read) =>
        /\ Len(data) = last.n
        /\ LET r == ReadAtRet(last.n, 0)
           IN /\ r.err \in {"nil", "EOF"}
              /\ r.n = last.n
              /\ r.out = data

\* the handle of a zero-length file: open, and never given a region
ZeroLength == f = "ptr" /\ region = "none"

IsOpen == f = "ptr" /\ (data # <<>> \/ region = "none")

\* s with p spliced in at [off, off + Len(p))
Splice(s, off, p) == SubSeq(s, 1, off) \o p \o SubSeq(s, off + Len(p) + 1, Len(s))

\* C12 as claimed: on a Read|Write handle WriteAt(p, off) with 0 <= off and
\* off + len(p) <= length, and equally Seek(off, SeekStart) followed by
\* Write(p), succeeds and leaves the previous bytes with p spliced in at
\* [off, off + len(p)). (Stated for a mapped, open handle.)
C12_WriteSplices ==
    (IsOpen /\ data # <<>> /\ flag = Read + Write) =>
        \A p \in BytesUpTo(MaxBuf), off \in 0..Len(data) :
            off + Len(p) <= Len(data) =>
                LET w == WriteAtRet(p, off)
                    s == SeekRet(off, SeekStart)
                    v == WriteRet(s.c, p)
                IN /\ w.err = "nil"
                   /\ w.data = Splice(data, off, p)
                   /\ s.err = "nil"
                   /\ v.err = "nil"
                   /\ v.data = Splice(data, off, p)

\* C12 amended: on an open Read|Write handle, for a non-empty p with 0 <= off
\* and off + len(p) <= length, WriteAt(p, off), and equally Seek(off,
\* SeekStart) followed by Write(p), returns len(p) and nil and leaves the
\* previous bytes with p spliced in at [off, off + len(p)). For an empty p
\* nothing is written: WriteAt returns (0, nil), but "mmap: closed" on the
\* handle of a zero-length file; Seek followed by Write returns (0, nil) when
\* off < length and (0, io.ErrShortWrite) when off = length.
C12_WriteSplicesNonEmpty ==
    (IsOpen /\ flag = Read + Write) =>
        \A p \in BytesUpTo(MaxBuf), off \in 0..Len(data) :
            off + Len(p) <= Len(data) =>
                LET w == WriteAtRet(p, off)
                    s == SeekRet(off, SeekStart)
                    v == WriteRet(s.c, p)
                    spliced == Splice(data, off, p)
                IN /\ s = Ret(off, "nil", <<>>, off, data)
                   /\ Len(p) > 0 =>
                          /\ w = Ret(Len(p), "nil", <<>>, c, spliced)
                          /\ v = Ret(Len(p), "nil", <<>>, off + Len(p), spliced)
                          /\ \A k \in 1..Len(data) :
                                 (k <= off \/ k > off + Len(p)) => w.data[k] = data[k]
                   /\ Len(p) = 0 =>
                          /\ w = (IF data = <<>> THEN Fail("closed", c)
                                  ELSE Ret(0, "nil", <<>>, c, data))
                          /\ v = (IF off < Len(data) THEN Ret(0, "nil", <<>>, off, data)
                                  ELSE Fail("ErrShortWrite", off))

\* a WriteAt on an open Read|Write handle has written every byte of a
\* non-empty payload
C12_Witness ==
    /\ IsOpen
    /\ flag = Read + Write
    /\ last.op = "WriteAt"
    /\ last.err = "nil"
    /\ last.n >= 1

\* the number of bytes that fit between cursor cur and the end of the extent
Room(cur) == IF cur >= Len(data) THEN 0 ELSE Len(data) - cur

\* C13 as claimed: in every reachable state of a writable handle, a Write(p)
\* whose payload does not fit between the cursor and the end of the extent,
\* and a WriteByte at or past the end, writes only the bytes that fit,
\* advances the cursor by that count, returns that count with
\* io.ErrShortWrite, does not panic and does not change the length.
C13_ShortWriteNeverFaults ==
    (f = "ptr" /\ wflag(flag)) =>
        /\ \A p \in BytesUpTo(MaxBuf) :
               Len(p) > Len(data) - c =>
                   LET v == WriteRet(c, p)
                       n == Room(c)
                   IN /\ v.err = "ErrShortWrite"
                      /\ v.n = n
                      /\ v.c = c + n
                      /\ Len(v.data) = Len(data)
                      /\ \A k \in 1..Len(data) :
                             v.data[k] = (IF k > c THEN p[k - c] ELSE data[k])
        /\ c >= Len(data) =>
               \A b \in ByteVals : WriteByteRet(c, b) = Fail("ErrShortWrite", c)

\* the reads and writes the mode permits, issued at cursor cur, report
\* end-of-stream and short-write with zero bytes and change nothing
PastEndAt(cur) ==
    /\ rflag(flag) =>
           /\ \A plen \in 0..MaxBuf : ReadRet(cur, plen) = Fail("EOF", cur)
           /\ ReadByteRet(cur) = Fail("EOF", cur)
    /\ wflag(flag) =>
           /\ \A p \in BytesUpTo(MaxBuf) : WriteRet(cur, p) = Fail("ErrShortWrite", cur)
           /\ \A b \in ByteVals : WriteByteRet(cur, b) = Fail("ErrShortWrite", cur)

\* C14 as claimed: a Seek to any position pos > length, from the start, from
\* the cursor or from the end, succeeds and returns pos; and with the cursor
\* there every Read and ReadByte reports io.EOF and every Write and WriteByte
\* reports io.ErrShortWrite, with zero bytes, without a panic and without a
\* change to the cursor or the bytes.
C14_SeekPastEnd ==
    f = "ptr" =>
        \A pos \in Int64Range, offset \in Int64Range, whence \in {SeekStart, SeekCurrent, SeekEnd} :
            (/\ pos > Len(data)
             /\ pos = (IF whence = SeekEnd THEN Len(data) - offset
                       ELSE SeekTarget(offset, whence))) =>
                LET s == SeekRet(offset, whence)
                IN /\ s = Ret(pos, "nil", <<>>, pos, data)
                   /\ PastEndAt(s.c)

\* C15 as claimed: on an open readable handle of length L, ReadAt(buf, off)
\* fails with the invalid-offset error exactly when off < 0 or off > L;
\* otherwise it copies n = min(len(buf), L - off) bytes from [off, off + n),
\* returns n, and returns io.EOF exactly when n < len(buf). On an open
\* writable handle WriteAt checks the offset the same way and returns
\* io.ErrShortWrite exactly when n < len(p).
C15_AtOffsetsAndCounts ==
    IsOpen =>
        \A off \in Int64Range :
            LET L == Len(data)
                bad == off < 0 \/ off > L
            IN /\ rflag(flag) =>
                      \A plen \in 0..MaxBuf :
                          LET r == ReadAtRet(plen, off)
                              n == Min(plen, L - off)
                          IN IF bad THEN r = Fail("invalid offset", c)
                             ELSE r = Ret(n, IF n < plen THEN "EOF" ELSE "nil",
                                          [k \in 1..n |-> data[off + k]], c, data)
               /\ wflag(flag) =>
                      \A p \in BytesUpTo(MaxBuf) :
                          LET w == WriteAtRet(p, off)
                              n == Min(Len(p), L - off)
                          IN IF bad THEN w = Fail("invalid offset", c)
                             ELSE /\ w.n = n
                                  /\ w.err = (IF n < Len(p) THEN "ErrShortWrite" ELSE "nil")
                                  /\ w.c = c
                                  /\ w.data = [k \in 1..L |->
                                                 IF k > off /\ k <= off + n
                                                 THEN p[k - off] ELSE data[k]]

\* the bytes of the extent from index from to the end
Rest(from) == [k \in 1..(Len(data) - from) |-> data[from + k]]

\* the read loop was entered on an open handle that permits reading, at a
\* cursor that is a position
LoopOnReadable == IsOpen /\ rflag(flag) /\ loop.from >= 0

SurfaceOps ==
    {"Len", "At", "Read", "ReadByte", "ReadAt", "Write", "WriteByte", "WriteAt",
     "Seek", "Stat", "Close"}

\* C17 as claimed: every operation of the I/O surface (Len, At, Read,
\* ReadByte, ReadAt, Write, WriteByte, WriteAt, Seek, Stat, Close) called on a
\* nil handle returns os.ErrInvalid to the caller and does not panic.
C17_NilHandleIsAnError ==
    (f = "nil" /\ last.op \in SurfaceOps) => last.err = "ErrInvalid"

\* the Flag values of the closed set
ClosedSet == {Read, Write, Read + Write}

\* the I/O calls that move bytes
ByteOps == {"Read", "ReadByte", "ReadAt", "Write", "WriteByte", "WriteAt"}

\* every read the handle offers fails with errBadFD
ReadsRefused ==
    /\ \A plen \in 0..MaxBuf :
           /\ ReadRet(c, plen) = Fail("errBadFD", c)
           /\ \A off \in Int64Range : ReadAtRet(plen, off) = Fail("errBadFD", c)
    /\ ReadByteRet(c) = Fail("errBadFD", c)

\* every write the handle offers fails with errBadFD
WritesRefused ==
    /\ \A p \in BytesUpTo(MaxBuf) :
           /\ WriteRet(c, p) = Fail("errBadFD", c)
           /\ \A off \in Int64Range : WriteAtRet(p, off) = Fail("errBadFD", c)
    /\ \A b \in ByteVals : WriteByteRet(c, b) = Fail("errBadFD", c)

\* C18 as claimed: a handle opened with a Flag outside {Read, Write,
\* Read|Write} (0, 0x4, 0x5, ...) is a zero-permission handle: every Read,
\* ReadByte, ReadAt, Write, WriteByte and WriteAt on it fails with errBadFD.
C18_ZeroPermission ==
    (f = "ptr" /\ flag \notin ClosedSet) =>
        /\ ReadsRefused
        /\ WritesRefused
        /\ last.op \in ByteOps => last.err = "errBadFD"

\* C19 as claimed: for a Write-only open the descriptor is opened readable
\* as well as writable and the protection asked of Mmap includes write, so
\* that wherever a Read|Write open of a non-empty file has established its
\* mapping, a Write-only open of that file establishes it too.
C19_WriteOnlyMaps ==
    (last.op = "Open" /\ last.after = Read + Write /\ last.err = "nil" /\ last.n > 0) =>
        /\ region = "mapped"
        /\ OsFlag(Write) = O_RDWR
        /\ ProtWrite(Write)
        /\ MmapPermitted(OsFlag(Write), ProtWrite(Write))
        /\ OpenErr(last.n, TRUE, TRUE, MmapPermitted(OsFlag(Write), ProtWrite(Write))) = "nil"

\* the calls that hand bytes of the extent to the caller
HandingOps == {"At", "Read", "ReadByte", "ReadAt"}

\* C20 as claimed: the mode is fixed at open and enforced by every
\* operation: no call (At included) hands a byte of the extent to the caller
\* on a handle opened without Read, no call changes a byte of the extent on a
\* handle opened without Write, and no call changes the mode of the handle.
C20_ModeEnforced ==
    [][f = "ptr" =>
          /\ flag' = flag
          /\ (~rflag(flag) /\ last'.op \in HandingOps) => last'.n = 0
          /\ ~wflag(flag) => \A k \in 1..Len(data') : data'[k] = data[k]]_vars

\* both threads have returned from their calls
ConcDone == conc.thr # <<>> /\ \A t \in 1..2 : conc.thr[t].pc = "done"

\* the extent d after the call of thread th has run alone on it
SeqData(d, th) ==
    IF th.w /\ th.n > 0 THEN Splice(d, th.off, SubSeq(th.p, 1, th.n)) ELSE d

\* the buffer of thread th after its ReadAt has run alone on the extent d
SeqOut(d, th) ==
    [k \in 1..Len(th.p) |-> IF k <= th.n THEN d[th.off + k] ELSE 0]

\* C21: ReadAt and WriteAt change no field of the handle and nothing of the
\* extent but the target bytes, so that two concurrent calls on byte ranges
\* with no byte in common, their steps interleaved in any way, return the
\* counts and errors, fill the buffers and leave the file bytes that the two
\* calls leave when run one after the other, in either order.
C21_DisjointCallsCommute ==
    /\ conc.thr # <<>> =>
           /\ c = conc.c0
           /\ Len(data) = Len(conc.data0)
           /\ IsOpen
    /\ ConcDone =>
           LET a == conc.thr[1]
               b == conc.thr[2]
               d0 == conc.data0
               ra == IF a.w THEN WriteAtRet(a.p, a.off) ELSE ReadAtRet(Len(a.p), a.off)
               rb == IF b.w THEN WriteAtRet(b.p, b.off) ELSE ReadAtRet(Len(b.p), b.off)
           IN /\ a.n = ra.n /\ a.err = ra.err
              /\ b.n = rb.n /\ b.err = rb.err
              /\ data = SeqData(SeqData(d0, a), b)
              /\ data = SeqData(SeqData(d0, b), a)
              /\ ~a.w => (a.out = SeqOut(d0, a) /\ a.out = SeqOut(SeqData(d0, b), a))
              /\ ~b.w => (b.out = SeqOut(d0, b) /\ b.out = SeqOut(SeqData(d0, a), b))

\* a WriteAt and a ReadAt that ran at once on neighbouring bytes have both
\* returned, each having moved a byte
C21_Witness ==
    /\ ConcDone
    /\ conc.thr[1].w
    /\ ~conc.thr[2].w
    /\ conc.thr[1].n >= 1
    /\ conc.thr[2].n >= 1
    /\ conc.thr[1].err = "nil"
    /\ data # conc.data0

\* the mapping is established and no Munmap has been issued for it
StillMapped == region = "mapped" /\ unmapCalls = 0

\* C22: openFile registers a finalizer for every handle it maps, and it
\* stays in force until Close runs. A mapped handle that becomes unreachable
\* without a Close has, under a fair collector, its finalizer run in the end:
\* it does what Close does, clearing the extent reference and the finalizer
\* and issuing the one Munmap, which releases the region unless the OS
\* refuses the call.
C22_DroppedIsReleased ==
    /\ [](StillMapped => (finalizer /\ data # <<>>))
    /\ ((~reachable /\ StillMapped) ~>
           (/\ last.op = "Finalizer"
            /\ unmapCalls = 1
            /\ data = <<>>
            /\ ~finalizer
            /\ (region = "unmapped") = (last.err = "nil")
            /\ (region = "mapped") = (last.err = "munmap")))
    /\ [][(last'.op = "Finalizer" /\ last.op # "Finalizer") =>
             (~reachable /\ StillMapped)]_vars

\* the finalizer of a dropped handle has run and released the region
C22_Witness ==
    /\ ~reachable
    /\ last.op = "Finalizer"
    /\ last.err = "nil"
    /\ region = "unmapped"
    /\ unmapCalls = 1

\* the errors openFile returns for a size it cannot map
InvalidFile == {"negative size", "too large"}

\* the sizes that are negative or that the host's native int does not hold
BadSize(size) == size < 0 \/ size > MaxInt(hostBits)

\* C23: once the file is opened and examined, openFile fails with an
\* invalid-file error, returning no handle and without a call of Mmap,
\* exactly when the size Stat reports is negative or does not fit the host's
\* native int; and every size from 1 to the largest native int goes on to
\* Mmap, called with exactly that length.
C23_SizeChecks ==
    /\ \A size \in Int64Range, mmapOk \in BOOLEAN :
           LET err == OpenErr(size, TRUE, TRUE, mmapOk)
           IN /\ (err \in InvalidFile) = BadSize(size)
              /\ (err = "negative size") = (size < 0)
              /\ size \in 1..MaxInt(hostBits) =>
                     (err = (IF mmapOk THEN "nil" ELSE "mmap") /\ ToInt(size) = size)
    /\ last.op = "Open" =>
           /\ last.err \in InvalidFile =>
                  (BadSize(last.n) /\ f = "nil" /\ mmapLen = <<>> /\ region = "none")
           /\ (BadSize(last.n) /\ last.err \notin {"open", "stat"}) =>
                  last.err \in InvalidFile
           /\ (last.n \in 1..MaxInt(hostBits) /\ last.err \notin {"open", "stat"}) =>
                  (mmapLen = <<last.n>> /\ last.err \in {"nil", "mmap"})
           /\ mmapLen # <<>> => last.n \in 1..MaxInt(hostBits)

\* on a host whose native int is narrower than int64, an open has failed on
\* a file larger than the native int holds
C23_Witness ==
    /\ last.op = "Open"
    /\ last.err = "too large"
    /\ last.n > MaxInt(hostBits)
    /\ hostBits < Int64Bits
    /\ fd = "open"

\* C24: the extent reference is non-empty only while the region is mapped
\* and no Munmap has been issued for it: Close clears f.data before it calls
\* Munmap, so that a call issued once Close has begun moves no byte of the
\* region.
C24_NoUseAfterUnmap ==
    /\ [](data # <<>> => (region = "mapped" /\ unmapCalls = 0 /\ closing = <<>>))
    /\ [](closing # <<>> => (data = <<>> /\ ~finalizer /\ unmapCalls = 0))
    /\ [][(last'.op \in (ByteOps \cup {"At"}) /\ last'.n >= 1) =>
             (region = "mapped" /\ unmapCalls = 0 /\ closing = <<>>)]_vars
    /\ [][(closing # <<>> \/ unmapCalls >= 1) =>
             (last'.op \in (ByteOps \cup {"At"}) => last'.n = 0)]_vars

\* a ReadAt issued between the two halves of a Close has found the handle
\* closed
C24_Witness ==
    /\ closing # <<>>
    /\ unmapCalls = 0
    /\ region = "mapped"
    /\ rflag(flag)
    /\ last.op = "ReadAt"
    /\ last.err = "closed"

\* C25 as claimed: ReadAt and WriteAt return "mmap: closed" only on a handle
\* on which Close has run: on the open, never-closed handle of a zero-length
\* file a ReadAt(buf, 0) or WriteAt(buf, 0) that the mode permits does not
\* return it.
C25_ClosedOnlyAfterClose ==
    /\ (last.op \in {"ReadAt", "WriteAt"} /\ last.err = "closed") => closeDone
    /\ (ZeroLength /\ ~closeDone) =>
           /\ rflag(flag) =>
                  \A plen \in 0..MaxBuf : ReadAtRet(plen, 0).err # "closed"
           /\ wflag(flag) =>
                  \A p \in BytesUpTo(MaxBuf) : WriteAtRet(p, 0).err # "closed"

\* the errors of an openFile that fails after os.OpenFile has succeeded
LateOpenErrs == {"stat", "negative size", "too large", "mmap"}

\* C26 as claimed: no descriptor of the backing file is leaked: once a Close
\* has returned on a handle that Open produced, mapped or zero-length, and
\* after every Open that failed once the file had been opened (stat failure,
\* bad size, mapping failure), the descriptor that Open obtained is closed.
C26_NoDescriptorLeak ==
    /\ (f = "ptr" /\ closeDone) => fd = "closed"
    /\ (last.op = "Open" /\ last.err \in LateOpenErrs) => fd = "closed"

\* C27 as claimed: for every non-negative int64 offset, a Seek(offset,
\* io.SeekStart) that returns no error returns offset and leaves the cursor at
\* offset, and a Seek(offset, io.SeekCurrent) that returns no error returns
\* c + offset: on no host does the conversion of the offset to the native
\* int give another position that is returned as a success.
C27_SeekNeverTruncates ==
    f = "ptr" =>
        \A offset \in 0..MaxInt(Int64Bits) :
            LET s == SeekRet(offset, SeekStart)
                t == SeekRet(offset, SeekCurrent)
            IN /\ s.err = "nil" => (s.n = offset /\ s.c = offset)
               /\ t.err = "nil" => (t.n = c + offset /\ t.c = c + offset)

====
